---- MODULE Spec2Model ----
(***************************************************************************)
(* A model of the tree-walking evaluator of the lisp interpreter:          *)
(* Environment (environment.rs), Value / Callable (value.rs), the builtins *)
(* (builtins.rs) and Evaluator (evaluator.rs).                             *)
(*                                                                         *)
(* Rc<RefCell<Environment>> is an index into the sequence envs, and        *)
(* Rc<Callable> an index into the sequence callables: two Rc's are the     *)
(* same allocation exactly when the indices are equal.                     *)
(*                                                                         *)
(* The model follows f64 arithmetic where it is exact.  A Number is the    *)
(* f64 n / den with den a power of two and n, den within MaxNumber; every  *)
(* such quotient is an f64, and + - * / on two of them return the exact    *)
(* result whenever that result is again such a quotient.  A literal or a   *)
(* result outside this range (0.1, 1 / 3, a large number) is one the code  *)
(* rounds.  The negative zero, which -(0), 0 * -1 and 0 / -1 give and      *)
(* which the sum of no number is under some toolchains, is outside the     *)
(* model as well.  The model does not follow a call that meets either, as  *)
(* it does not follow an evaluation nested deeper than MaxDepth.           *)
(***************************************************************************)
EXTENDS Integers, Sequences, FiniteSets, TLC

VARIABLES
    envs,       \* every Environment allocated so far; envs[1] is the global_env of
                \* the Evaluator that main constructs
    callables,  \* every Callable allocated so far (builtins first, then lambdas)
    out,        \* the lines written to standard output by print
    program,    \* the argument of the last eval_program call
    result,     \* what the last eval_program or evaluate call returned
    trace,      \* what the last eval_program or evaluate call did, in order
    calls,      \* number of eval_program and evaluate calls made so far
    nodes,      \* number of nodes handed to eval_program and evaluate so far
    evaluator,  \* the Evaluator of the last eval_program call: its global_env
    set_call    \* the Environment::set call of the last step and what it
                \* returned, NoSet when the last step was another call

vars == <<envs, callables, out, program, result, trace, calls, nodes,
          evaluator, set_call>>

\* ---------------------------------------------------------------- bounds
MaxNodes == 4
MaxCalls == 2
MaxDepth == 11
MaxNumber == 4096

\* ------------------------------------------------------------ Expression
Num(n) == [k |-> "Number", n |-> n, den |-> 1]
\* a literal with a fractional part, such as 3.5 = Dec(7, 2)
Dec(n, den) == [k |-> "Number", n |-> n, den |-> den]
Str(s) == [k |-> "String", s |-> s]
Bool(b) == [k |-> "Boolean", b |-> b]
Id(name) == [k |-> "Identifier", name |-> name]
List(elements) == [k |-> "List", elements |-> elements]

\* ----------------------------------------------------------------- Value
Number(n) == [t |-> "Number", n |-> n, den |-> 1]
String(s) == [t |-> "String", s |-> s]
Boolean(b) == [t |-> "Boolean", b |-> b]
Nil == [t |-> "Nil"]
Function(rc) == [t |-> "Function", rc |-> rc]

\* -------------------------------------------------------------------- f64
Abs(i) == IF i < 0 THEN 0 - i ELSE i

RECURSIVE GCD(_, _)
\* the greatest common divisor of two naturals
GCD(i, j) == IF j = 0 THEN i ELSE GCD(j, i % j)

RECURSIVE IsPowerOfTwo(_)
IsPowerOfTwo(i) == i = 1 \/ (i > 1 /\ i % 2 = 0 /\ IsPowerOfTwo(i \div 2))

\* an f64 outside the range the model follows: one the code obtains by
\* rounding, and the negative zero
Outside == [t |-> "Outside"]

\* Value::Number of the f64 that n / den (den # 0) is, Outside when the
\* quotient in lowest terms is not in the range the model follows
F64(n, den) ==
    LET div == GCD(Abs(n), Abs(den))
        sign == IF (n < 0) = (den < 0) THEN 1 ELSE 0 - 1
        num == Abs(n) \div div
        denom == Abs(den) \div div
    IN IF num > MaxNumber \/ denom > MaxNumber \/ ~IsPowerOfTwo(denom) THEN Outside
       ELSE [t |-> "Number", n |-> sign * num, den |-> denom]

\* the f64 operators + - * / < and unary -.  x + -x and x - x are 0 and
\* never -0 under the default rounding; 0 * v and 0 / v have the sign of v,
\* and -0 is the negative zero.
f64_add(u, v) ==
    IF Outside \in {u, v} THEN Outside
    ELSE F64(u.n * v.den + v.n * u.den, u.den * v.den)
f64_sub(u, v) ==
    IF Outside \in {u, v} THEN Outside
    ELSE F64(u.n * v.den - v.n * u.den, u.den * v.den)
f64_mul(u, v) ==
    IF Outside \in {u, v} THEN Outside
    ELSE IF u.n * v.n = 0 /\ (u.n < 0 \/ v.n < 0) THEN Outside
    ELSE F64(u.n * v.n, u.den * v.den)
f64_div(u, v) ==
    IF Outside \in {u, v} THEN Outside
    ELSE IF u.n = 0 /\ v.n < 0 THEN Outside
    ELSE F64(u.n * v.den, u.den * v.n)
f64_neg(u) ==
    IF u = Outside THEN Outside
    ELSE IF u.n = 0 THEN Outside
    ELSE F64(0 - u.n, u.den)
f64_lt(u, v) == u.n * v.den < v.n * u.den

\* ------------------------------------------------------------- EvalError
UndefinedVariable(name) == [e |-> "UndefinedVariable", name |-> name]
TypeError(msg) == [e |-> "TypeError", msg |-> msg]
WrongNumArgs(msg) == [e |-> "WrongNumArgs", msg |-> msg]
NotCallable(value) == [e |-> "NotCallable", value |-> value]
DivisionByZero == [e |-> "DivisionByZero"]

\* Result<Value, EvalError>, and the abort of the process when the derived
\* PartialEq recurses without end and exhausts the native stack
Ok(v) == [tag |-> "Ok", val |-> v]
Err(e) == [tag |-> "Err", err |-> e]
Crash == [tag |-> "Crash", why |-> "stack overflow"]
\* an evaluation nested deeper than MaxDepth, which the model does not follow
Deeper == [tag |-> "Deeper"]
\* an evaluation that meets an f64 that is Outside, which the model does not
\* follow
OutsideNumber == [tag |-> "OutsideNumber"]

\* Ok(Value::Number(v))
OkNumber(v) == IF v = Outside THEN OutsideNumber ELSE Ok(v)

\* ----------------------------------------------------------- Environment
BuiltinNames == <<"+", "-", "*", "/", "=", "!=", ">", "<", ">=", "<=", "print">>

DefineNoOverwrite(store, name, value) ==
    IF name \in DOMAIN store THEN store
    ELSE [n \in DOMAIN store \cup {name} |-> IF n = name THEN value ELSE store[n]]

\* Environment::define: HashMap::insert into the local store
Define(store, name, value) ==
    [n \in DOMAIN store \cup {name} |-> IF n = name THEN value ELSE store[n]]

\* a root environment that names itself as its parent
NewEnvironmentOwnParent ==
    [store |-> [n \in {BuiltinNames[i] : i \in DOMAIN BuiltinNames} |->
                  Function(CHOOSE i \in DOMAIN BuiltinNames : BuiltinNames[i] = n)],
     parent |-> 1]

\* Environment::new: the builtins, no parent
NewEnvironment ==
    [store |-> [n \in {BuiltinNames[i] : i \in DOMAIN BuiltinNames} |->
                  Function(CHOOSE i \in DOMAIN BuiltinNames : BuiltinNames[i] = n)],
     parent |-> 0]

\* Environment::new when base callables are already allocated: each builtin
\* is a new Rc<Callable>
NewEnvironmentAt(base) ==
    [store |-> [n \in DOMAIN NewEnvironment.store |->
                  Function(base + NewEnvironment.store[n].rc)],
     parent |-> 0]

\* the Callable::Builtin values Environment::new allocates
NewBuiltins == [i \in DOMAIN BuiltinNames |-> [kind |-> "Builtin", name |-> BuiltinNames[i]]]

\* HashMap::new()
EmptyStore == [n \in {} |-> Nil]

\* Environment::new_with_parent
NewWithParent(parent) == [store |-> EmptyStore, parent |-> parent]

ContainsKeyAlways(store, name) == TRUE

\* HashMap::contains_key
ContainsKey(store, name) == name \in DOMAIN store

\* Result<(), EvalError>::Ok(())
OkUnit == [tag |-> "Ok"]

RECURSIVE Set(_, _, _, _)
\* Environment::set: the heap it leaves and what it returns
Set(E, env, name, value) ==
    IF ContainsKey(E[env].store, name)
    THEN [r |-> OkUnit, envs |-> [E EXCEPT ![env].store = Define(@, name, value)]]
    ELSE IF E[env].parent # 0 THEN Set(E, E[env].parent, name, value)
    ELSE [r |-> Err(UndefinedVariable(name)), envs |-> E]

RECURSIVE Get(_, _, _)
\* Environment::get
Get(E, env, name) ==
    IF name \in DOMAIN E[env].store THEN Ok(E[env].store[name])
    ELSE IF E[env].parent # 0 THEN Get(E, E[env].parent, name)
    ELSE Err(UndefinedVariable(name))

\* the bindings (environment, name) whose value differs between two heaps
Changed(E1, E2) ==
    {b \in UNION {{<<e, n>> : n \in DOMAIN E1[e].store \cup DOMAIN E2[e].store} :
                    e \in DOMAIN E1 \cap DOMAIN E2} :
        LET e == b[1]
            n == b[2]
        IN \/ (n \in DOMAIN E1[e].store) # (n \in DOMAIN E2[e].store)
           \/ /\ n \in DOMAIN E1[e].store
              /\ n \in DOMAIN E2[e].store
              /\ E1[e].store[n] # E2[e].store[n]}

\* ------------------------------------------- derived PartialEq (value.rs)
(* #[derive(PartialEq)] on Value, Callable and Environment compares by     *)
(* structure: Rc<Callable> and Rc<RefCell<Environment>> compare their      *)
(* pointees (neither pointee is Eq, so Rc has no pointer shortcut).  The   *)
(* comparison of two Lambdas descends into the captured environments, whose*)
(* stores may hold Lambdas again.  "T" / "F" are true / false; "D" is a    *)
(* recursion that re-enters a pair of environments it is still comparing,  *)
(* which never returns and exhausts the native stack.  HashMap's eq visits *)
(* the entries in an unspecified order, each map in its own, and stops at  *)
(* the first unequal one: when one entry is unequal and another diverges,  *)
(* first says which the iteration order meets first, "F" or "D".  Nothing  *)
(* changes the heap during one invocation of = or !=, and whatever the     *)
(* maps compared below it meet first, it returns false when each meets     *)
(* the unequal entry first, overflows when each meets the diverging one    *)
(* first, and has no third outcome: one choice for each invocation gives   *)
(* every run of the code.  The choices of different invocations are       *)
(* independent: orc holds one for each = or != invocation of a call, in    *)
(* order.  "U" stands for a choice orc does not hold.                      *)
RECURSIVE ValueEq(_, _, _, _, _), EnvEq(_, _, _, _, _)

\* <Callable as PartialEq>::eq through Rc<Callable>
CallableEq(ra, rb, stk, H, first) ==
    LET ca == H.callables[ra]
        cb == H.callables[rb]
    IN IF ca.kind # cb.kind THEN "F"
       ELSE IF ca.kind = "Builtin" THEN (IF ca.name = cb.name THEN "T" ELSE "F")
       ELSE IF ca.params # cb.params THEN "F"
       ELSE IF ca.body # cb.body THEN "F"
       ELSE EnvEq(ca.env, cb.env, stk, H, first)

\* <Value as PartialEq>::eq
ValueEq(a, b, stk, H, first) ==
    IF a.t # b.t THEN "F"
    ELSE IF a.t = "Number" THEN (IF a.n = b.n /\ a.den = b.den THEN "T" ELSE "F")
    ELSE IF a.t = "String" THEN (IF a.s = b.s THEN "T" ELSE "F")
    ELSE IF a.t = "Boolean" THEN (IF a.b = b.b THEN "T" ELSE "F")
    ELSE IF a.t = "Nil" THEN "T"
    ELSE CallableEq(a.rc, b.rc, stk, H, first)

\* <HashMap<String, Value> as PartialEq>::eq
StoreEq(sa, sb, stk, H, first) ==
    IF Cardinality(DOMAIN sa) # Cardinality(DOMAIN sb) THEN "F"
    ELSE LET outs == {IF key \in DOMAIN sb
                      THEN ValueEq(sa[key], sb[key], stk, H, first)
                      ELSE "F" : key \in DOMAIN sa}
         IN IF "U" \in outs THEN "U"
            ELSE IF "F" \in outs /\ "D" \in outs THEN first
            ELSE IF "D" \in outs THEN "D"
            ELSE IF "F" \in outs THEN "F"
            ELSE "T"

\* <Environment as PartialEq>::eq through Rc<RefCell<Environment>>: store, then parent
EnvEq(a, b, stk, H, first) ==
    IF <<a, b>> \in stk THEN "D"
    ELSE LET stk2 == stk \cup {<<a, b>>}
             s == StoreEq(H.envs[a].store, H.envs[b].store, stk2, H, first)
             pa == H.envs[a].parent
             pb == H.envs[b].parent
         IN IF s # "T" THEN s
            ELSE IF pa = 0 /\ pb = 0 THEN "T"
            ELSE IF pa = 0 \/ pb = 0 THEN "F"
            ELSE EnvEq(pa, pb, stk2, H, first)

\* ---------------------------------------------------------------- builtins
Fmt(fmt, args) == [fmt |-> fmt, args |-> args]

\* check_num_args
check_num_args(func_name, args, expected) ==
    IF Len(args) # expected
    THEN Err(WrongNumArgs(Fmt("{} expects {} arguments, but got {}",
                              <<func_name, expected, Len(args)>>)))
    ELSE Ok(Nil)

\* check_min_args
check_min_args(func_name, args, min_expected) ==
    IF Len(args) < min_expected
    THEN Err(WrongNumArgs(Fmt("{} expects at least {} arguments, but got {}",
                              <<func_name, min_expected, Len(args)>>)))
    ELSE Ok(Nil)

NotNumber(func_name) == Err(TypeError(Fmt("{} expects numbers", <<func_name>>)))

\* get_all_num_args: the first non-Number argument, 0 when all are Numbers
FirstNonNumber(args) ==
    IF \A i \in DOMAIN args : args[i].t = "Number" THEN 0
    ELSE CHOOSE i \in DOMAIN args :
            /\ args[i].t # "Number"
            /\ \A j \in 1..(i - 1) : args[j].t = "Number"

RECURSIVE Sum(_, _, _), Product(_, _, _)
\* Iterator::sum and Iterator::product of args[lo..hi]: a fold from the left,
\* ((0 + args[lo]) + args[lo + 1]) + ...
Sum(args, lo, hi) ==
    IF hi < lo THEN Number(0) ELSE f64_add(Sum(args, lo, hi - 1), args[hi])
Product(args, lo, hi) ==
    IF hi < lo THEN Number(1) ELSE f64_mul(Product(args, lo, hi - 1), args[hi])

\* iter().sum() and iter().product() of the arguments from the i-th on.  The
\* sum of no number is 0 or -0 with the toolchain; 0 + v and -0 + v are the
\* same f64 for every v but -0.
SumFrom(args, i) == IF i > Len(args) THEN Outside ELSE Sum(args, i, Len(args))
ProductFrom(args, i) == Product(args, i, Len(args))

builtin_add(args) ==
    IF FirstNonNumber(args) # 0 THEN NotNumber("+") ELSE OkNumber(SumFrom(args, 1))

\* a left fold of pairwise subtraction from 0: (- 5) is -5, (- 10 3) is -13
builtin_sub_fold(args) ==
    IF check_min_args("-", args, 1).tag # "Ok" THEN check_min_args("-", args, 1)
    ELSE IF FirstNonNumber(args) # 0 THEN NotNumber("-")
    ELSE OkNumber(f64_neg(SumFrom(args, 1)))

builtin_sub(args) ==
    IF check_min_args("-", args, 1).tag # "Ok" THEN check_min_args("-", args, 1)
    ELSE IF FirstNonNumber(args) # 0 THEN NotNumber("-")
    ELSE IF Len(args) = 1 THEN OkNumber(f64_neg(args[1]))
    ELSE OkNumber(f64_sub(args[1], SumFrom(args, 2)))

builtin_mul(args) ==
    IF FirstNonNumber(args) # 0 THEN NotNumber("*") ELSE OkNumber(ProductFrom(args, 1))

\* get_two_num_args followed by the comparison or the division
TwoNumbers(func_name, args) ==
    IF check_num_args(func_name, args, 2).tag # "Ok" THEN check_num_args(func_name, args, 2)
    ELSE IF FirstNonNumber(args) # 0 THEN NotNumber(func_name)
    ELSE Ok(Nil)

builtin_div(args) ==
    IF TwoNumbers("/", args).tag # "Ok" THEN TwoNumbers("/", args)
    ELSE IF args[2].n = 0 THEN Err(DivisionByZero)
    ELSE OkNumber(f64_div(args[1], args[2]))

builtin_cmp(func_name, args) ==
    IF TwoNumbers(func_name, args).tag # "Ok" THEN TwoNumbers(func_name, args)
    ELSE LET a == args[1]
             b == args[2]
         IN Ok(Boolean(CASE func_name = ">" -> f64_lt(b, a)
                         [] func_name = "<" -> f64_lt(a, b)
                         [] func_name = ">=" -> ~f64_lt(a, b)
                         [] func_name = "<=" -> ~f64_lt(b, a)))

\* a comparison whose outcome rests on a choice that orc does not hold, which
\* the model does not follow
Unordered == [tag |-> "Unordered"]

\* the number of = and != invocations the call has made so far
EqCalls(H) ==
    Cardinality({i \in DOMAIN H.trace :
                    H.trace[i].ev = "native" /\ H.trace[i].name \in {"=", "!="}})

\* the choice of orc for the next = or != invocation of the call
OracleAt(H, orc) ==
    IF EqCalls(H) + 1 \in DOMAIN orc THEN orc[EqCalls(H) + 1] ELSE "U"

\* the outcome of args[0] == args[1] as a Result: "D" aborts the process
EqResult(o, negate) ==
    IF o = "D" THEN Crash
    ELSE IF o = "U" THEN Unordered
    ELSE Ok(Boolean(IF negate THEN o = "F" ELSE o = "T"))

builtin_eq(args, H, orc) ==
    IF check_num_args("=", args, 2).tag # "Ok" THEN check_num_args("=", args, 2)
    ELSE EqResult(ValueEq(args[1], args[2], {}, H, OracleAt(H, orc)), FALSE)

builtin_ne(args, H, orc) ==
    IF check_num_args("!=", args, 2).tag # "Ok" THEN check_num_args("!=", args, 2)
    ELSE EqResult(ValueEq(args[1], args[2], {}, H, OracleAt(H, orc)), TRUE)

\* args.len() - 1 taken before the loop: usize underflow on an empty Vec
builtin_print_underflow(args) == IF Len(args) = 0 THEN Crash ELSE Ok(Nil)

\* builtin_print: always Ok(Nil)
builtin_print(args) == Ok(Nil)

\* the output of builtin_func(args_values): print writes one line made of its
\* arguments in order, the other builtins write nothing
NativeOutput(name, args, lines) ==
    IF name = "print" THEN Append(lines, args) ELSE lines

\* the call builtin_func(args_values)
Native(name, args, H, orc) ==
    CASE name = "+" -> builtin_add(args)
      [] name = "-" -> builtin_sub(args)
      [] name = "*" -> builtin_mul(args)
      [] name = "/" -> builtin_div(args)
      [] name = "=" -> builtin_eq(args, H, orc)
      [] name = "!=" -> builtin_ne(args, H, orc)
      [] name \in {">", "<", ">=", "<="} -> builtin_cmp(name, args)
      [] name = "print" -> builtin_print(args)

\* ---------------------------------------------------------------- Evaluator
(* The evaluation threads a record H = [envs, callables, out, trace,       *)
(* global_env] through                                                     *)
(* the recursion, as the Rust code threads its heap and standard output.   *)
(* trace logs each entry of evaluate ("eval") and its return ("exit") with *)
(* the nesting depth d, each Environment::define ("define"), each native   *)
(* call ("native") and each Lambda invocation ("call").                    *)
Log(H, event) == [H EXCEPT !.trace = Append(@, event)]

SpecialForms == {"if", "let", "lambda"}

IsSpecial(elements) ==
    /\ elements[1].k = "Identifier"
    /\ elements[1].name \in SpecialForms

\* the environment a Lambda call allocates its frame under
NewCallParentDynamic(callable, caller_env) == caller_env

\* apply_function_call: Environment::new_with_parent(Rc::clone(captured_env))
NewCallParent(callable, caller_env) == callable.env

\* the environment the let form defines its name in
LetTargetRoot(env, E) == 1

\* "let": env.borrow_mut().define(...)
LetTarget(env, E) == env

TruthyUnlessFalseOrNil(condition) ==
    ~(condition.t = "Nil" \/ (condition.t = "Boolean" /\ ~condition.b))

LetResultIsValue(value) == value

\* "let": Ok(Value::Nil)
LetResult(value) == Nil

\* "if": if let Value::Boolean(true) = condition
Truthy(condition) == condition.t = "Boolean" /\ condition.b

\* "lambda": every element of the parameter list is an identifier
AllIdentifiers(param_list) == \A i \in DOMAIN param_list : param_list[i].k = "Identifier"

\* "lambda": the parameter names
ParamNames(param_list) == [i \in 1..Len(param_list) |-> param_list[i].name]

RECURSIVE BindParams(_, _, _, _)
\* apply_function_call: for (param_name, arg_value) in params.iter().zip(args_values)
BindParams(store, params, args, i) ==
    IF i > Len(params) \/ i > Len(args) THEN store
    ELSE BindParams(Define(store, params[i], args[i]), params, args, i + 1)

ArityMismatchTooFewOnly(params, args) == Len(args) < Len(params)

\* the Lambda arity check of apply_function_call
ArityMismatch(params, args) == Len(args) # Len(params)

RECURSIVE evaluate(_, _, _, _, _), evaluate_inner(_, _, _, _, _),
          eval_args(_, _, _, _, _, _), eval_body(_, _, _, _, _, _, _),
          apply_function_call(_, _, _, _, _)

\* Evaluator::evaluate with its entry and its return logged
evaluate(expr, env, d, H, orc) ==
    LET R == evaluate_inner(expr, env, d,
                            Log(H, [ev |-> "eval", expr |-> expr, env |-> env, d |-> d]),
                            orc)
    IN [r |-> R.r, H |-> Log(R.H, [ev |-> "exit", d |-> d, res |-> R.r])]

\* the "if" arm
eval_if(elements, env, d, H, orc) ==
    IF Len(elements) < 3 \/ Len(elements) > 4
    THEN [r |-> Err(WrongNumArgs(
                  Fmt("if expects 2 or 3 arguments (condition then-expr [else-expr])", <<>>))),
          H |-> H]
    ELSE LET c == evaluate(elements[2], env, d + 1, H, orc)
         IN IF c.r.tag # "Ok" THEN c
            ELSE IF Truthy(c.r.val) THEN evaluate(elements[3], env, d + 1, c.H, orc)
            ELSE IF Len(elements) = 4 THEN evaluate(elements[4], env, d + 1, c.H, orc)
            ELSE [r |-> Ok(Nil), H |-> c.H]

\* the "let" arm
eval_let(elements, env, d, H, orc) ==
    IF Len(elements) # 3
    THEN [r |-> Err(WrongNumArgs(Fmt("let expects 2 arguments (variable value)", <<>>))), H |-> H]
    ELSE IF elements[2].k # "Identifier"
    THEN [r |-> Err(TypeError(Fmt("let expects an identifier as variable name", <<>>))), H |-> H]
    ELSE LET v == evaluate(elements[3], env, d + 1, H, orc)
         IN IF v.r.tag # "Ok" THEN v
            ELSE LET target == LetTarget(env, v.H.envs)
                     E2 == [v.H.envs EXCEPT ![target].store =
                                Define(@, elements[2].name, v.r.val)]
                 IN [r |-> Ok(LetResult(v.r.val)),
                     H |-> Log([v.H EXCEPT !.envs = E2],
                               [ev |-> "define", env |-> env, name |-> elements[2].name,
                                val |-> v.r.val, changed |-> Changed(v.H.envs, E2),
                                local |-> IF elements[2].name \in DOMAIN E2[env].store
                                          THEN Ok(E2[env].store[elements[2].name])
                                          ELSE Err(UndefinedVariable(elements[2].name))])]

\* the "lambda" arm
eval_lambda(elements, env, d, H, orc) ==
    IF Len(elements) < 3
    THEN [r |-> Err(WrongNumArgs(Fmt("lambda expects at least (params) body", <<>>))), H |-> H]
    ELSE IF elements[2].k # "List"
    THEN [r |-> Err(TypeError(Fmt("lambda parameters must be a list", <<>>))), H |-> H]
    ELSE IF ~AllIdentifiers(elements[2].elements)
    THEN [r |-> Err(TypeError(Fmt("lambda parameters must be identifiers", <<>>))), H |-> H]
    ELSE LET lambda == [kind |-> "Lambda",
                        params |-> ParamNames(elements[2].elements),
                        body |-> SubSeq(elements, 3, Len(elements)),
                        env |-> env]
         IN [r |-> Ok(Function(Len(H.callables) + 1)),
             H |-> [H EXCEPT !.callables = Append(@, lambda)]]

evaluate_inner(expr, env, d, H, orc) ==
    IF d > MaxDepth THEN [r |-> Deeper, H |-> H]
    ELSE CASE expr.k = "Number" -> [r |-> OkNumber(F64(expr.n, expr.den)), H |-> H]
           [] expr.k = "String" -> [r |-> Ok(String(expr.s)), H |-> H]
           [] expr.k = "Boolean" -> [r |-> Ok(Boolean(expr.b)), H |-> H]
           [] expr.k = "Identifier" -> [r |-> Get(H.envs, env, expr.name), H |-> H]
           [] expr.k = "List" ->
                IF Len(expr.elements) = 0 THEN [r |-> Ok(Nil), H |-> H]
                ELSE IF IsSpecial(expr.elements)
                THEN CASE expr.elements[1].name = "if" ->
                              eval_if(expr.elements, env, d, H, orc)
                       [] expr.elements[1].name = "let" ->
                              eval_let(expr.elements, env, d, H, orc)
                       [] expr.elements[1].name = "lambda" ->
                              eval_lambda(expr.elements, env, d, H, orc)
                ELSE apply_function_call(expr.elements, env, d, H, orc)

RECURSIVE eval_args_collect_all(_, _, _, _, _, _)
\* every argument is evaluated, then the first Err, if any, is returned
eval_args_collect_all(args_exprs, i, env, d, H, orc) ==
    IF i > Len(args_exprs) THEN [r |-> [tag |-> "Ok", vals |-> <<>>], H |-> H]
    ELSE LET arg == evaluate(args_exprs[i], env, d, H, orc)
             rest == eval_args_collect_all(args_exprs, i + 1, env, d, arg.H, orc)
         IN IF arg.r.tag # "Ok" THEN [r |-> arg.r, H |-> rest.H]
            ELSE IF rest.r.tag # "Ok" THEN rest
            ELSE [r |-> [tag |-> "Ok", vals |-> <<arg.r.val>> \o rest.r.vals],
                  H |-> rest.H]

\* Evaluator::eval_args from argument i on: collect() stops at the first Err
eval_args(args_exprs, i, env, d, H, orc) ==
    IF i > Len(args_exprs) THEN [r |-> [tag |-> "Ok", vals |-> <<>>], H |-> H]
    ELSE LET a == evaluate(args_exprs[i], env, d, H, orc)
         IN IF a.r.tag # "Ok" THEN a
            ELSE LET rest == eval_args(args_exprs, i + 1, env, d, a.H, orc)
                 IN IF rest.r.tag # "Ok" THEN rest
                    ELSE [r |-> [tag |-> "Ok", vals |-> <<a.r.val>> \o rest.r.vals],
                          H |-> rest.H]

\* apply_function_call: for expr in body { result = self.evaluate(expr, ...)? }
eval_body(body, i, env, d, last, H, orc) ==
    IF i > Len(body) THEN [r |-> Ok(last), H |-> H]
    ELSE LET b == evaluate(body[i], env, d, H, orc)
         IN IF b.r.tag # "Ok" THEN b
            ELSE eval_body(body, i + 1, env, d, b.r.val, b.H, orc)

\* Evaluator::apply_function_call
apply_function_call(elements, env, d, H, orc) ==
    LET f == evaluate(elements[1], env, d + 1, H, orc)
    IN IF f.r.tag # "Ok" THEN f
       ELSE LET a == eval_args(Tail(elements), 1, env, d + 1, f.H, orc)
            IN IF a.r.tag # "Ok" THEN a
               ELSE IF f.r.val.t # "Function"
               THEN [r |-> Err(NotCallable(f.r.val)), H |-> a.H]
               ELSE LET callable == a.H.callables[f.r.val.rc]
                        args == a.r.vals
                    IN IF callable.kind = "Builtin"
                       THEN LET res == Native(callable.name, args, a.H, orc)
                            IN [r |-> res,
                                H |-> Log([a.H EXCEPT !.out =
                                              NativeOutput(callable.name, args, @)],
                                          [ev |-> "native", name |-> callable.name,
                                           args |-> args, res |-> res])]
                       ELSE IF ArityMismatch(callable.params, args)
                       THEN [r |-> Err(WrongNumArgs(
                                     Fmt("Function expects {} arguments, but got {}",
                                         <<Len(callable.params), Len(args)>>))),
                             H |-> a.H]
                       ELSE LET func_call_env == Len(a.H.envs) + 1
                                frame == [NewWithParent(NewCallParent(callable, env))
                                            EXCEPT !.store =
                                                BindParams(@, callable.params, args, 1)]
                                H1 == Log([a.H EXCEPT !.envs = Append(@, frame)],
                                          [ev |-> "call", rc |-> f.r.val.rc,
                                           caller |-> env, env |-> func_call_env,
                                           args |-> args, store |-> frame.store,
                                           d |-> d])
                            IN eval_body(callable.body, 1, func_call_env, d + 1,
                                         Nil, H1, orc)

RECURSIVE eval_program_ignoring_errors(_, _, _, _, _)
eval_program_ignoring_errors(prog, i, last_result, H, orc) ==
    IF i > Len(prog) THEN [r |-> Ok(last_result), H |-> H]
    ELSE LET n == evaluate(prog[i], H.global_env, 0, H, orc)
         IN IF n.r.tag \in {"Crash", "Deeper", "OutsideNumber", "Unordered"} THEN n
            ELSE eval_program_ignoring_errors(prog, i + 1,
                    IF n.r.tag = "Ok" THEN n.r.val ELSE last_result, n.H, orc)

RECURSIVE eval_program_from(_, _, _, _, _)
\* Evaluator::eval_program: for expr in program { last_result = evaluate(expr, global)? }
eval_program_from(prog, i, last_result, H, orc) ==
    IF i > Len(prog) THEN [r |-> Ok(last_result), H |-> H]
    ELSE LET n == evaluate(prog[i], H.global_env, 0, H, orc)
         IN IF n.r.tag # "Ok" THEN n
            ELSE eval_program_from(prog, i + 1, n.r.val, n.H, orc)

\* ------------------------------------------------------------ state machine
\* the last step was no Environment::set call
NoSet == [env |-> 0]

\* Evaluator::new
Init ==
    /\ envs = <<NewEnvironment>>
    /\ callables = NewBuiltins
    /\ out = <<>>
    /\ program = <<>>
    /\ result = Ok(Nil)
    /\ trace = <<>>
    /\ calls = 0
    /\ nodes = 0
    /\ evaluator = 1
    /\ set_call = NoSet

MaxCompares == 3

\* the iteration orders a call can meet: one choice for each of its = and !=
\* invocations, in order
Oracles == [1..MaxCompares -> {"F", "D"}]

\* the oracle of a call that compares no Functions: it holds no choice.  Of
\* the forms below only EqForms apply = or !=.
NoOracle == <<>>

\* every program of at most n nodes drawn from the forms F
Programs(F, n) == UNION {[1..m -> F] : m \in 0..n}

\* the environments an Evaluator can own: Environment::new gives no parent
Roots == {e \in DOMAIN envs : envs[e].parent = 0}

\* the environment a failed eval_program call would leave if it undid its work
EnvsAfterRollback(R, E) == IF R.r.tag = "Ok" THEN R.H.envs ELSE E

\* the environments eval_program leaves: `?` returns early and undoes nothing
EnvsAfter(R, E) == R.H.envs

\* a global environment shared by every Evaluator
GlobalEnvShared(ev) == 1

\* self.global_env of the Evaluator ev
GlobalEnv(ev) == ev

\* one call ev.eval_program(&prog); a stack overflow ends the process
EvalProgramOn(ev, prog, orc) ==
    /\ result.tag # "Crash"
    /\ calls < MaxCalls
    /\ nodes + Len(prog) <= MaxNodes
    /\ LET R == eval_program_from(prog, 1, Nil,
                    [envs |-> envs, callables |-> callables, out |-> out,
                     trace |-> <<>>, global_env |-> GlobalEnv(ev)],
                    orc)
       IN /\ R.r.tag \notin {"Deeper", "OutsideNumber", "Unordered"}
          /\ envs' = EnvsAfter(R, envs)
          /\ callables' = R.H.callables
          /\ out' = R.H.out
          /\ trace' = R.H.trace
          /\ result' = R.r
    /\ program' = prog
    /\ calls' = calls + 1
    /\ nodes' = nodes + Len(prog)
    /\ evaluator' = ev
    /\ set_call' = NoSet

\* eval_program on the Evaluator that main constructs
EvalProgram(prog, orc) == EvalProgramOn(1, prog, orc)

\* ------------------------------------------------------------- identifiers
x == Id("x")
f == Id("f")
g == Id("g")
Let(name, expr) == List(<<Id("let"), name, expr>>)
Lambda(params, body) == List(<<Id("lambda"), List(params)>> \o body)
Call(head, args) == List(<<head>> \o args)

\* ------------------------------------------------- lexical scoping programs
\* (let x 1)  (let f (lambda () x))  (let x 2)  (f)
\* (let g (lambda (x) (let x 3) (f)))  (g 5)
ScopeForms ==
    {Let(x, Num(1)), Let(f, Lambda(<<>>, <<x>>)), Let(x, Num(2)), Call(f, <<>>),
     Let(g, Lambda(<<x>>, <<Let(x, Num(3)), Call(f, <<>>)>>)), Call(g, <<Num(5)>>)}

NextScope == \E prog \in Programs(ScopeForms, MaxNodes - nodes) :
                EvalProgram(prog, NoOracle)

SpecScope == Init /\ [][NextScope]_vars

\* ------------------------------------------------------------ trace helpers
Evals == {i \in DOMAIN trace : trace[i].ev = "eval"}
Defines == {i \in DOMAIN trace : trace[i].ev = "define"}
LambdaCalls == {i \in DOMAIN trace : trace[i].ev = "call"}
Natives == {i \in DOMAIN trace : trace[i].ev = "native"}

\* the return of the evaluation entered at trace position i
ExitOf(i) ==
    CHOOSE j \in DOMAIN trace :
        /\ j > i
        /\ trace[j].ev = "exit"
        /\ trace[j].d = trace[i].d
        /\ \A m \in (i + 1)..(j - 1) : ~(trace[m].ev = "exit" /\ trace[m].d = trace[i].d)

\* the evaluations made directly by the evaluation entered at i, in order
ChildrenOf(i) ==
    {j \in Evals : j > i /\ j < ExitOf(i) /\ trace[j].d = trace[i].d + 1}

RECURSIVE Ascending(_)
\* the members of a set of trace positions, in order
Ascending(S) ==
    IF S = {} THEN <<>>
    ELSE LET lo == CHOOSE i \in S : \A j \in S : i <= j
         IN <<lo>> \o Ascending(S \ {lo})

\* the expressions the evaluation entered at i evaluated directly, in order
ChildExprs(i) ==
    LET c == Ascending(ChildrenOf(i)) IN [n \in 1..Len(c) |-> trace[c[n]].expr]

\* what those evaluations returned, in order
ChildResults(i) ==
    LET c == Ascending(ChildrenOf(i)) IN [n \in 1..Len(c) |-> trace[ExitOf(c[n])].res]

\* what the first evaluation made by the evaluation entered at i returned
\* (for a call form: its head), Crash when it made none
HeadResult(i) ==
    IF ChildrenOf(i) = {} THEN Crash ELSE ChildResults(i)[1]

\* the evaluations of procedure-call forms
CallForms ==
    {i \in Evals : /\ trace[i].expr.k = "List"
                   /\ Len(trace[i].expr.elements) > 0
                   /\ ~IsSpecial(trace[i].expr.elements)}

\* the Lambda invocations made directly by the call form entered at i
FramesOf(i) ==
    {c \in LambdaCalls : c > i /\ c < ExitOf(i) /\ trace[c].d = trace[i].d}

\* --------------------------------------------------------------------- C1
ProgC1 == <<Let(x, Num(1)), Let(f, Lambda(<<>>, <<x>>)), Let(x, Num(2)), Call(f, <<>>)>>

\* C1 as stated: on a fresh Evaluator the program
\* (let x 1) (let f (lambda () x)) (let x 2) (f) yields Number 1.
C1_YieldsOne ==
    (calls = 1 /\ program = ProgC1) => result = Ok(Number(1))

\* C1 amended: the program yields Number 2.  The lambda holds its defining
\* (global) environment by reference and the second let overwrites x in that
\* same environment, so x resolves to the binding the defining environment
\* holds when f is called.
C1_YieldsCurrentBinding ==
    (calls = 1 /\ program = ProgC1) =>
        /\ result = Ok(Number(2))
        /\ result = Get(envs, callables[envs[1].store["f"].rc].env, "x")

C1_Witness ==
    /\ calls = 1
    /\ program = ProgC1
    /\ result.tag = "Ok"
    /\ \E i \in LambdaCalls : trace[i].rc = envs[1].store["f"].rc

\* --------------------------------------------------------------------- C2
\* C2: the environment of every Lambda invocation has the Lambda's captured
\* environment as its parent, and an identifier evaluated in it that is bound
\* neither in the frame nor along the captured chain fails with
\* UndefinedVariable, also when the caller's environment binds it.
C2_FrameUnderCapturedEnv ==
    \A c \in LambdaCalls :
        /\ envs[trace[c].env].parent = callables[trace[c].rc].env
        /\ \A j \in Evals :
              (/\ j > c
               /\ trace[j].env = trace[c].env
               /\ trace[j].expr.k = "Identifier"
               /\ trace[j].expr.name \notin DOMAIN envs[trace[c].env].store
               /\ Get(envs, callables[trace[c].rc].env, trace[j].expr.name).tag = "Err")
              => trace[ExitOf(j)].res = Err(UndefinedVariable(trace[j].expr.name))

C2_Witness ==
    \E c \in LambdaCalls : \E j \in Evals :
        /\ j > c
        /\ trace[j].env = trace[c].env
        /\ trace[j].expr.k = "Identifier"
        /\ trace[c].caller # callables[trace[c].rc].env
        /\ Get(envs, trace[c].caller, trace[j].expr.name).tag = "Ok"
        /\ trace[ExitOf(j)].res = Err(UndefinedVariable(trace[j].expr.name))
        /\ result = Err(UndefinedVariable(trace[j].expr.name))

\* --------------------------------------------------------------------- C3
\* C3: a let evaluated in a Lambda invocation changes the binding of its name
\* in that invocation's environment and nothing else, and across a whole
\* eval_program call a binding of an environment that existed before the call
\* (the global one included) changes only through a let evaluated in that
\* very environment.
C3_LetInBodyIsLocal ==
    [][/\ \A i \in {j \in DOMAIN trace' : trace'[j].ev = "define"} :
             trace'[i].changed \subseteq {<<trace'[i].env, trace'[i].name>>}
       /\ Changed(envs, envs') \subseteq
             {<<trace'[i].env, trace'[i].name>> :
                 i \in {j \in DOMAIN trace' : trace'[j].ev = "define"}}]_vars

C3_Witness ==
    /\ result.tag = "Ok"
    /\ \E i \in Defines :
          /\ trace[i].env > 1
          /\ trace[i].name \in DOMAIN envs[1].store
          /\ envs[trace[i].env].store[trace[i].name] = trace[i].val
          /\ envs[1].store[trace[i].name] # trace[i].val
          /\ \A j \in Defines : trace[j].env > 1

\* ---------------------------------------------------- function equality programs
Eq == Id("=")
Ne == Id("!=")
mk == Id("mk")
One == Lambda(<<>>, <<Num(1)>>)

\* (let f (lambda () 1))  (= f f)  (= (lambda () 1) (lambda () 1))
\* (!= (lambda () 1) (lambda () 1))  (= + +)
\* (let mk (lambda (x) (let f (lambda () 1)) f))  (= (mk 1) (mk 2))
EqForms ==
    {Let(f, One), Call(Eq, <<f, f>>), Call(Eq, <<One, One>>), Call(Ne, <<One, One>>),
     Call(Eq, <<Id("+"), Id("+")>>),
     Let(mk, Lambda(<<x>>, <<Let(f, One), f>>)),
     Call(Eq, <<Call(mk, <<Num(1)>>), Call(mk, <<Num(2)>>)>>)}

MaxEqNodes == 3

\* one call builtins::builtin_eq(vec![v, w]) or builtin_ne (name "=" or
\* "!=") by a client, or v == w of the derived PartialEq, on two Values of
\* the heap: it writes nothing and changes no binding, and it aborts the
\* process when the comparison recurses without end
BuiltinEq(name, v, w, first) ==
    /\ result.tag # "Crash"
    /\ name \in {"=", "!="}
    /\ LET res == EqResult(ValueEq(v, w, {},
                                    [envs |-> envs, callables |-> callables], first),
                            name = "!=")
       IN result' = IF res = Crash THEN Crash ELSE result
    /\ set_call' = NoSet
    /\ UNCHANGED <<envs, callables, out, program, trace, calls, nodes, evaluator>>

\* the Values a client reads from the global environment with Environment::get
\* under the names f, mk and +
GlobalValues == {envs[1].store[n] : n \in {"f", "mk", "+"} \cap DOMAIN envs[1].store}

NextEq ==
    \/ \E prog \in Programs(EqForms, MaxEqNodes - nodes), orc \in Oracles :
            EvalProgram(prog, orc)
    \/ \E name \in {"=", "!="}, v \in GlobalValues, w \in GlobalValues,
          first \in {"F", "D"} : BuiltinEq(name, v, w, first)

SpecEq == Init /\ [][NextEq]_vars

IsLambdaValue(v) == v.t = "Function" /\ callables[v.rc].kind = "Lambda"

\* --------------------------------------------------------------------- C4
\* C4: whenever = or != is applied to two Function values that come from two
\* separate evaluations of lambda forms, = returns false and != returns true.
C4_DistinctLambdasNeverEqual ==
    \A i \in Natives :
        (/\ trace[i].name \in {"=", "!="}
         /\ Len(trace[i].args) = 2
         /\ IsLambdaValue(trace[i].args[1])
         /\ IsLambdaValue(trace[i].args[2])
         /\ trace[i].args[1].rc # trace[i].args[2].rc)
        => trace[i].res = Ok(Boolean(trace[i].name = "!="))

\* --------------------------------------------------------------------- C5
\* C5: whenever = is applied to a Function value and itself, the call
\* terminates and returns Boolean true.
C5_FunctionEqualsItself ==
    \A i \in Natives :
        (/\ trace[i].name = "="
         /\ Len(trace[i].args) = 2
         /\ trace[i].args[1].t = "Function"
         /\ trace[i].args[2].t = "Function"
         /\ trace[i].args[1].rc = trace[i].args[2].rc)
        => trace[i].res = Ok(Boolean(TRUE))

\* ------------------------------------------------------- non-callable heads
y == Id("y")
z == Id("z")

\* (let x 1)  (x z)  (x (let y 7))  ("s" x)
CalleeForms ==
    {Let(x, Num(1)), Call(x, <<z>>), Call(x, <<Let(y, Num(7))>>), Call(Str("s"), <<x>>)}

NextCallee == \E prog \in Programs(CalleeForms, MaxNodes - nodes) :
                 EvalProgram(prog, NoOracle)

SpecCallee == Init /\ [][NextCallee]_vars

\* --------------------------------------------------------------------- C6
\* C6: whenever the head of a procedure-call form evaluates to a Value that is
\* no Function, the evaluation of the form fails with NotCallable carrying
\* that Value, whatever its argument expressions are.
C6_NonFunctionHeadIsNotCallable ==
    \A i \in CallForms :
        LET head == HeadResult(i)
        IN (head.tag = "Ok" /\ head.val.t # "Function")
           => trace[ExitOf(i)].res = Err(NotCallable(head.val))

\* ------------------------------------------------------------ arity programs
a == Id("a")
b == Id("b")

\* (let g (lambda (a b) (let x a) b))  (g 1)  (g 1 2)  (g 1 2 3)
\* ((lambda (a a) a) 1 2)  ((lambda () 1) 2)
ArityForms ==
    {Let(g, Lambda(<<a, b>>, <<Let(x, a), b>>)),
     Call(g, <<Num(1)>>), Call(g, <<Num(1), Num(2)>>), Call(g, <<Num(1), Num(2), Num(3)>>),
     Call(Lambda(<<a, a>>, <<a>>), <<Num(1), Num(2)>>),
     Call(One, <<Num(2)>>)}

NextArity == \E prog \in Programs(ArityForms, MaxNodes - nodes) :
                EvalProgram(prog, NoOracle)

SpecArity == Init /\ [][NextArity]_vars

\* --------------------------------------------------------------------- C7
\* a call form whose head evaluated to a Lambda and whose arguments have all
\* evaluated
LambdaCallReady(i) ==
    /\ HeadResult(i).tag = "Ok"
    /\ IsLambdaValue(HeadResult(i).val)
    /\ Len(ChildResults(i)) >= Len(trace[i].expr.elements)
    /\ \A n \in 1..Len(trace[i].expr.elements) : ChildResults(i)[n].tag = "Ok"

\* the call i of a Lambda with m arguments for other than m parameters fails
\* with WrongNumArgs, having created no call environment and evaluated
\* nothing but the head and the arguments
FailsOnArity(i, m) ==
    /\ trace[ExitOf(i)].res.tag = "Err"
    /\ trace[ExitOf(i)].res.err.e = "WrongNumArgs"
    /\ FramesOf(i) = {}
    /\ Len(ChildResults(i)) = m + 1
    /\ ExitOf(i) = ExitOf(Ascending(ChildrenOf(i))[m + 1]) + 1

\* the call i of a Lambda with as many arguments as parameters creates the
\* one call environment c, for the argument values in order, that binds
\* exactly the parameter names
CreatesFrame(i, c, m) ==
    /\ FramesOf(i) = {c}
    /\ trace[c].rc = HeadResult(i).val.rc
    /\ trace[c].args = [n \in 1..m |-> ChildResults(i)[n + 1].val]
    /\ DOMAIN trace[c].store = {callables[HeadResult(i).val.rc].params[n] : n \in 1..m}

\* C7 as stated: a call of a Lambda with n parameters and m arguments, all
\* evaluated: with m # n it fails with WrongNumArgs, having created no call
\* environment and evaluated nothing but the head and the arguments; with
\* m = n the call environment binds the i-th parameter to the i-th argument
\* value, for every i.
C7_LambdaArityIsExact ==
    \A i \in CallForms :
        LambdaCallReady(i)
        => LET params == callables[HeadResult(i).val.rc].params
               m == Len(trace[i].expr.elements) - 1
           IN IF m # Len(params)
              THEN FailsOnArity(i, m)
              ELSE \E c \in FramesOf(i) :
                      /\ CreatesFrame(i, c, m)
                      /\ \A n \in 1..m :
                            trace[c].store[params[n]] = ChildResults(i)[n + 1].val

\* C7: the same, but with m = n the call environment binds every parameter
\* name to the argument at the last position where the name is listed: the
\* i-th parameter is bound to the i-th argument value unless its name is
\* listed again further on.
C7_LastListedPositionBinds ==
    \A i \in CallForms :
        LambdaCallReady(i)
        => LET params == callables[HeadResult(i).val.rc].params
               m == Len(trace[i].expr.elements) - 1
           IN IF m # Len(params)
              THEN FailsOnArity(i, m)
              ELSE \E c \in FramesOf(i) :
                      /\ CreatesFrame(i, c, m)
                      /\ \A n \in 1..m :
                            (\A n2 \in (n + 1)..m : params[n2] # params[n])
                            => trace[c].store[params[n]] = ChildResults(i)[n + 1].val

\* one call ran ((lambda (a a) a) 1 2), whose frame binds a to 2 and which
\* returned 2, then (g 1 2), which returned 2, then (g 1 2 3), which failed
\* with WrongNumArgs
C7_Witness ==
    /\ \E i \in CallForms :
          /\ HeadResult(i).tag = "Ok"
          /\ IsLambdaValue(HeadResult(i).val)
          /\ Len(callables[HeadResult(i).val.rc].params) = 2
          /\ Len(trace[i].expr.elements) - 1 = 3
          /\ trace[ExitOf(i)].res.tag = "Err"
          /\ trace[ExitOf(i)].res.err.e = "WrongNumArgs"
    /\ \E i \in CallForms :
          /\ HeadResult(i).tag = "Ok"
          /\ IsLambdaValue(HeadResult(i).val)
          /\ Len(callables[HeadResult(i).val.rc].params) = 2
          /\ Len(trace[i].expr.elements) - 1 = 2
          /\ callables[HeadResult(i).val.rc].params = <<"a", "b">>
          /\ trace[ExitOf(i)].res = Ok(Number(2))
    /\ \E i \in CallForms :
          /\ HeadResult(i).tag = "Ok"
          /\ IsLambdaValue(HeadResult(i).val)
          /\ callables[HeadResult(i).val.rc].params = <<"a", "a">>
          /\ trace[ExitOf(i)].res = Ok(Number(2))
          /\ \E c \in FramesOf(i) :
                /\ trace[c].args = <<Number(1), Number(2)>>
                /\ trace[c].store["a"] = Number(2)


\* --------------------------------------------------------------- if programs
If2(c, t) == List(<<Id("if"), c, t>>)
If3(c, t, e) == List(<<Id("if"), c, t, e>>)

\* (let x true) (let x false) (let x 0) (let x "s") (let x (print)) (let x print)
\* (if x "a" "b")  (if x "a")  (if x)  (if x "a" "b" "c")  (if z "a" "b")
IfForms ==
    {Let(x, Bool(TRUE)), Let(x, Bool(FALSE)), Let(x, Num(0)), Let(x, Str("s")),
     Let(x, Call(Id("print"), <<>>)), Let(x, Id("print")),
     If3(x, Str("a"), Str("b")), If2(x, Str("a")),
     List(<<Id("if"), x>>), List(<<Id("if"), x, Str("a"), Str("b"), Str("c")>>)}

MaxIfNodes == 2

NextIf == \E prog \in Programs(IfForms, MaxIfNodes - nodes) :
             EvalProgram(prog, NoOracle)

SpecIf == Init /\ [][NextIf]_vars

\* the evaluations of if forms
IfForms_ == {i \in Evals : /\ trace[i].expr.k = "List"
                           /\ Len(trace[i].expr.elements) > 0
                           /\ trace[i].expr.elements[1] = Id("if")}

\* --------------------------------------------------------------------- C8
\* C8: an if form with fewer than 2 or more than 3 operands fails with
\* WrongNumArgs and evaluates nothing.  Otherwise it evaluates the condition;
\* when that is Boolean(true) it evaluates the then-branch and nothing else
\* and returns its result; for every other condition value it evaluates the
\* else-branch and nothing else and returns its result, or evaluates nothing
\* more and returns Nil when there is no else-branch.
C8_IfTakesOneBranch ==
    \A i \in IfForms_ :
        LET el == trace[i].expr.elements
            kids == ChildExprs(i)
            res == ChildResults(i)
            ret == trace[ExitOf(i)].res
        IN IF Len(el) < 3 \/ Len(el) > 4
           THEN /\ ret.tag = "Err"
                /\ ret.err.e = "WrongNumArgs"
                /\ ExitOf(i) = i + 1
           ELSE /\ Len(kids) >= 1
                /\ kids[1] = el[2]
                /\ res[1].tag = "Ok" =>
                      IF res[1].val = Boolean(TRUE)
                      THEN kids = <<el[2], el[3]>> /\ ret = res[2]
                      ELSE IF Len(el) = 4
                      THEN kids = <<el[2], el[4]>> /\ ret = res[2]
                      ELSE kids = <<el[2]>> /\ ret = Ok(Nil)

C8_Witness ==
    \E i \in IfForms_ :
        /\ Len(trace[i].expr.elements) = 4
        /\ ChildResults(i)[1] = Ok(Number(0))
        /\ ChildExprs(i) = <<x, Str("b")>>
        /\ trace[ExitOf(i)].res = Ok(String("b"))

\* ------------------------------------------------- let and program programs
\* (let x 1)  (let y x)  (let 1 (let y 7))  (let x (let y 2))
\* (let x (lambda () (let x 3) (let y x) y))  (x)
LetForms ==
    {Let(x, Num(1)), Let(y, x), Let(Num(1), Let(y, Num(7))), Let(x, Let(y, Num(2))),
     Let(x, Lambda(<<>>, <<Let(x, Num(3)), Let(y, x), y>>)), Call(x, <<>>)}

Next == \E prog \in Programs(LetForms, MaxNodes - nodes) :
           EvalProgram(prog, NoOracle)

Spec == Init /\ [][Next]_vars

\* the evaluations of let forms with two operands
LetForms_ == {i \in Evals : /\ trace[i].expr.k = "List"
                            /\ Len(trace[i].expr.elements) = 3
                            /\ trace[i].expr.elements[1] = Id("let")}

\* --------------------------------------------------------------------- C9
\* C9: a let form (let name expr) evaluated in environment E fails with a
\* TypeError, evaluating nothing, when name is no identifier.  Otherwise it
\* evaluates expr in E and nothing else; when that fails it returns the same
\* error and defines nothing; when it yields v it then changes the binding of
\* name in E's own store to v, changes no other binding of any environment,
\* and returns Nil.
C9_LetDefinesLocally ==
    \A i \in LetForms_ :
        LET el == trace[i].expr.elements
            ret == trace[ExitOf(i)].res
        IN IF el[2].k # "Identifier"
           THEN /\ ret.tag = "Err"
                /\ ret.err.e = "TypeError"
                /\ ExitOf(i) = i + 1
           ELSE /\ ChildExprs(i) = <<el[3]>>
                /\ trace[i + 1].env = trace[i].env
                /\ LET v == ChildResults(i)[1]
                       after == ExitOf(i + 1) + 1
                   IN IF v.tag # "Ok"
                      THEN ret = v /\ ExitOf(i) = after
                      ELSE /\ ExitOf(i) = after + 1
                           /\ trace[after].ev = "define"
                           /\ trace[after].env = trace[i].env
                           /\ trace[after].name = el[2].name
                           /\ trace[after].val = v.val
                           /\ trace[after].local = Ok(v.val)
                           /\ trace[after].changed \subseteq {<<trace[i].env, el[2].name>>}
                           /\ ret = Ok(Nil)

C9_Witness ==
    /\ \E i \in LetForms_ :
          /\ trace[i].env > 1
          /\ trace[i].expr.elements[2] = x
          /\ "x" \in DOMAIN envs[1].store
          /\ envs[trace[i].env].store["x"] = Number(3)
          /\ envs[1].store["x"] # Number(3)
          /\ trace[ExitOf(i)].res = Ok(Nil)
    /\ \E i \in LetForms_ :
          /\ trace[i].expr.elements[2].k # "Identifier"
          /\ trace[ExitOf(i)].res.tag = "Err"
    /\ "y" \notin DOMAIN envs[1].store

\* -------------------------------------------------------------------- C10
\* the evaluations of the top-level nodes, in order
TopLevel == Ascending({i \in Evals : trace[i].d = 0})

\* C10: eval_program evaluates the nodes of the program in order, each in the
\* global environment, and stops at the first node that fails: it returns
\* that node's error and evaluates nothing after it; when no node fails it
\* returns the value of the last node, or Nil for the empty program.
C10_ProgramInOrderUntilFailure ==
    LET tops == TopLevel
        k == Len(tops)
    IN /\ k <= Len(program)
       /\ \A n \in 1..k : trace[tops[n]].expr = program[n] /\ trace[tops[n]].env = 1
       /\ \A n \in 1..(k - 1) : trace[ExitOf(tops[n])].res.tag = "Ok"
       /\ IF Len(program) = 0 THEN result = Ok(Nil) /\ trace = <<>>
          ELSE /\ k >= 1
               /\ result = trace[ExitOf(tops[k])].res
               /\ Len(trace) = ExitOf(tops[k])
               /\ result.tag = "Ok" => k = Len(program)

C10_Witness ==
    /\ result.tag = "Err"
    /\ Len(TopLevel) = 2
    /\ Len(program) = 3
    /\ program[3] = Let(y, x)
    /\ "x" \in DOMAIN envs[1].store
    /\ "y" \notin DOMAIN envs[1].store

\* ------------------------------------------------------- reference structure
\* environment -> parent
ParentEdges == {<<e, envs[e].parent>> : e \in {d \in DOMAIN envs : envs[d].parent # 0}}

\* environment -> the environment captured by a Lambda stored in it
LambdaEdges ==
    {p \in (DOMAIN envs) \X (DOMAIN envs) :
        \E n \in DOMAIN envs[p[1]].store :
            LET v == envs[p[1]].store[n]
            IN /\ v.t = "Function"
               /\ callables[v.rc].kind = "Lambda"
               /\ callables[v.rc].env = p[2]}

RECURSIVE ReachableFrom(_, _)
\* the environments reached from the set S along the edges R, S included
ReachableFrom(S, R) ==
    LET T == S \cup {p[2] : p \in {q \in R : q[1] \in S}}
    IN IF T = S THEN S ELSE ReachableFrom(T, R)

\* some path of one edge or more along R leads from e back to e
OnCycle(e, R) == e \in ReachableFrom({p[2] : p \in {q \in R : q[1] = e}}, R)

\* C11 as stated: following the parent edges and the edges through stored
\* Lambdas, no environment ever leads back to itself.
C11_NoReferenceCycle ==
    \A e \in DOMAIN envs : ~OnCycle(e, ParentEdges \cup LambdaEdges)

\* C11: following the parent edges alone no environment leads back to itself:
\* every parent was allocated before its child.  The edges through stored
\* Lambdas are outside this statement.
C11_ParentLinksAcyclic ==
    \A e \in DOMAIN envs :
        /\ envs[e].parent < e
        /\ ~OnCycle(e, ParentEdges)

\* (let f (lambda () x)) was run at top level and f was called: the call frame
\* has the global environment as parent, and the global environment holds a
\* Lambda that captured the global environment
C11_Witness ==
    /\ \E e \in DOMAIN envs : envs[e].parent = 1
    /\ "f" \in DOMAIN envs[1].store
    /\ <<1, 1>> \in LambdaEdges
    /\ OnCycle(1, ParentEdges \cup LambdaEdges)

\* ---------------------------------------------------------- Environment::set

\* one call env.borrow_mut().set(name, value) on an environment of the heap
EnvSet(env, name, value) ==
    /\ result.tag # "Crash"
    /\ env \in DOMAIN envs
    /\ LET S == Set(envs, env, name, value)
       IN /\ envs' = S.envs
          /\ set_call' = [env |-> env, name |-> name, value |-> value, res |-> S.r]
    /\ UNCHANGED <<callables, out, program, result, trace, calls, nodes, evaluator>>

MaxEvaluators == 2

\* Evaluator::new: one more Evaluator, with its own Environment::new().  An
\* Evaluator holds nothing but its environment, so that a client's call of
\* Environment::new on its own is this step too.
NewEvaluator ==
    /\ result.tag # "Crash"
    /\ Cardinality(Roots) < MaxEvaluators
    /\ envs' = Append(envs, NewEnvironmentAt(Len(callables)))
    /\ callables' = callables \o NewBuiltins
    /\ set_call' = NoSet
    /\ UNCHANGED <<out, program, result, trace, calls, nodes, evaluator>>

\* the largest heap a client's new_with_parent and define calls act on
MaxEnvs == 2

\* one call Environment::new_with_parent(parent) by a client, on an
\* environment of the heap
EnvNewWithParent(parent) ==
    /\ result.tag # "Crash"
    /\ parent \in DOMAIN envs
    /\ Len(envs) < MaxEnvs
    /\ envs' = Append(envs, NewWithParent(parent))
    /\ set_call' = NoSet
    /\ UNCHANGED <<callables, out, program, result, trace, calls, nodes, evaluator>>

\* one call env.borrow_mut().define(name, value) by a client
EnvDefine(env, name, value) ==
    /\ result.tag # "Crash"
    /\ env \in DOMAIN envs
    /\ Len(envs) < MaxEnvs
    /\ envs' = [envs EXCEPT ![env].store = Define(@, name, value)]
    /\ set_call' = NoSet
    /\ UNCHANGED <<callables, out, program, result, trace, calls, nodes, evaluator>>

\* one call evaluator.evaluate(&expr, env) by a client, against any
\* environment of the heap; evaluate reads no field of the Evaluator
Evaluate(expr, env, orc) ==
    /\ result.tag # "Crash"
    /\ env \in DOMAIN envs
    /\ calls < MaxCalls
    /\ nodes + 1 <= MaxNodes
    /\ LET R == evaluate(expr, env, 0,
                    [envs |-> envs, callables |-> callables, out |-> out,
                     trace |-> <<>>, global_env |-> GlobalEnv(evaluator)],
                    orc)
       IN /\ R.r.tag \notin {"Deeper", "OutsideNumber", "Unordered"}
          /\ envs' = EnvsAfter(R, envs)
          /\ callables' = R.H.callables
          /\ out' = R.H.out
          /\ trace' = R.H.trace
          /\ result' = R.r
    /\ program' = <<expr>>
    /\ calls' = calls + 1
    /\ nodes' = nodes + 1
    /\ set_call' = NoSet
    /\ UNCHANGED evaluator

\* (let x 1)  ((lambda (x) ((lambda (y) y) x)) 5)
SetForms ==
    {Let(x, Num(1)),
     Call(Lambda(<<x>>, <<Call(Lambda(<<y>>, <<y>>), <<x>>)>>), <<Num(5)>>)}

MaxSetNodes == 2

\* what a client of the crate can call on one Evaluator: eval_program,
\* evaluate against any environment, and new_with_parent, define and set on
\* any environment.  No form here compares Functions, so that the order in
\* which a HashMap is visited plays no part.
NextSet ==
    \/ \E prog \in Programs(SetForms, MaxSetNodes - nodes) : EvalProgram(prog, NoOracle)
    \/ \E env \in DOMAIN envs : nodes < MaxSetNodes /\ Evaluate(x, env, NoOracle)
    \/ \E parent \in DOMAIN envs : EnvNewWithParent(parent)
    \/ \E env \in DOMAIN envs : EnvDefine(env, "z", Number(1))
    \/ \E env \in DOMAIN envs, name \in {"x", "z"} : EnvSet(env, name, Number(7))

SpecSet == Init /\ [][NextSet]_vars

RECURSIVE ChainOf(_, _)
\* an environment, its parent, the parent of that, ... up to the root
ChainOf(E, env) == IF env = 0 THEN <<>> ELSE <<env>> \o ChainOf(E, E[env].parent)

\* C12: a call of Environment::set overwrites the binding of the name in the
\* innermost environment of the chain that holds it and changes no other
\* binding; it creates no binding and no environment.  When no environment of
\* the chain holds the name it returns UndefinedVariable(name) and the heap is
\* unchanged.
C12_SetOverwritesInnermostHolder ==
    [][set_call'.env # 0 =>
        LET c == set_call'
            chain == ChainOf(envs, c.env)
            holders == {i \in DOMAIN chain : c.name \in DOMAIN envs[chain[i]].store}
        IN /\ DOMAIN envs' = DOMAIN envs
           /\ \A e \in DOMAIN envs :
                 /\ DOMAIN envs'[e].store = DOMAIN envs[e].store
                 /\ envs'[e].parent = envs[e].parent
           /\ callables' = callables
           /\ out' = out
           /\ IF holders = {}
              THEN /\ c.res = Err(UndefinedVariable(c.name))
                   /\ envs' = envs
              ELSE LET h == chain[CHOOSE i \in holders : \A j \in holders : i <= j]
                   IN /\ c.res = OkUnit
                      /\ envs'[h].store[c.name] = c.value
                      /\ Changed(envs, envs') \subseteq {<<h, c.name>>}]_vars

\* set("x", 7) on environment 3, whose chain is 3 -> 2 -> global (the frame
\* of the inner call, under the frame of the outer call): x was overwritten
\* in environment 2, the innermost holder, and the global x still is 1
C12_Witness ==
    /\ set_call.env = 3
    /\ Len(envs) >= 3
    /\ ChainOf(envs, 3) = <<3, 2, 1>>
    /\ set_call.name = "x"
    /\ set_call.res = OkUnit
    /\ "x" \notin DOMAIN envs[3].store
    /\ envs[2].store["x"] = Number(7)
    /\ "x" \in DOMAIN envs[1].store
    /\ envs[1].store["x"] = Number(1)

\* ---------------------------------------------------------------- print
print == Id("print")

\* (print)  (print 1 "a")  (let x 1)  (print x)  (print (print) print)
PrintForms ==
    {Call(print, <<>>), Call(print, <<Num(1), Str("a")>>), Let(x, Num(1)),
     Call(print, <<x>>), Call(print, <<Call(print, <<>>), print>>)}

\* the most lines of output after which a client still calls builtin_print
MaxLines == 2

\* one call builtins::builtin_print(args) by a client: it writes one line made
\* of args and returns Ok(Nil); no evaluation takes place
BuiltinPrint(args) ==
    /\ result.tag # "Crash"
    /\ Len(out) < MaxLines
    /\ builtin_print(args) = Ok(Nil)
    /\ out' = NativeOutput("print", args, out)
    /\ set_call' = NoSet
    /\ UNCHANGED <<envs, callables, program, result, trace, calls, nodes, evaluator>>

NextPrint ==
    \/ \E prog \in Programs(PrintForms, MaxNodes - nodes) : EvalProgram(prog, NoOracle)
    \/ BuiltinPrint(<<Number(1), String("a")>>)

SpecPrint == Init /\ [][NextPrint]_vars

\* C13: every invocation of the builtin print, with zero arguments or more,
\* returns Nil; each invocation adds exactly one line, made of its arguments,
\* to the output; and an eval_program call changes no binding but those its
\* let forms define, allocates no environment but the frames of its Lambda
\* calls, and changes no Callable: print changes none of them.
C13_PrintOnlyWritesOneLine ==
    [][calls' = calls + 1 =>
        LET prints == Ascending({i \in DOMAIN trace' :
                                    /\ trace'[i].ev = "native"
                                    /\ trace'[i].name = "print"})
        IN /\ \A k \in DOMAIN prints : trace'[prints[k]].res = Ok(Nil)
           /\ out' = out \o [k \in DOMAIN prints |-> trace'[prints[k]].args]
           /\ \A c \in Changed(envs, envs') :
                 \E i \in DOMAIN trace' : /\ trace'[i].ev = "define"
                                          /\ trace'[i].env = c[1]
                                          /\ trace'[i].name = c[2]
           /\ Len(envs') = Len(envs) +
                 Cardinality({i \in DOMAIN trace' : trace'[i].ev = "call"})
           /\ SubSeq(callables', 1, Len(callables)) = callables]_vars

\* (print), (print 1 "a") and (print (print) print) ran: print was invoked with
\* no argument, with two, and with a Nil and a Function; each returned Nil and
\* left its line
C13_Witness ==
    /\ \E i \in Natives : /\ trace[i].name = "print"
                         /\ trace[i].args = <<>>
                         /\ trace[i].res = Ok(Nil)
    /\ \E i \in Natives : /\ trace[i].name = "print"
                         /\ trace[i].args = <<Nil, Function(11)>>
                         /\ trace[i].res = Ok(Nil)
    /\ \E k \in DOMAIN out : out[k] = <<>>
    /\ \E k \in DOMAIN out : out[k] = <<Number(1), String("a")>>
    /\ \E k \in DOMAIN out : out[k] = <<Nil, Function(11)>>
    /\ envs = <<NewEnvironment>>

\* ------------------------------------------------------- several Evaluators
\* (let x 1)  (let x 2)  x  ((lambda () (let x 3)))
PersistForms ==
    {Let(x, Num(1)), Let(x, Num(2)), x, Call(Lambda(<<>>, <<Let(x, Num(3))>>), <<>>)}

MaxPersistNodes == 3

NextPersist ==
    \/ NewEvaluator
    \/ \E ev \in Roots, prog \in Programs(PersistForms, MaxPersistNodes - nodes) :
            EvalProgramOn(ev, prog, NoOracle)

SpecPersist == Init /\ [][NextPersist]_vars

\* C14: a binding of an Evaluator's global environment keeps its value through
\* every step, and no binding appears in it, unless the step is an
\* eval_program call on that same Evaluator in which a let defined the name
\* in that environment; a newly constructed Evaluator holds the builtins and
\* nothing else; and an eval_program call whose program is a single
\* identifier finds what the earlier calls on that Evaluator left for it.
C14_GlobalBindingsPersistPerEvaluator ==
    [][/\ \A r \in Roots :
            \A n \in DOMAIN envs[r].store \cup DOMAIN envs'[r].store :
                \/ /\ n \in DOMAIN envs[r].store
                   /\ n \in DOMAIN envs'[r].store
                   /\ envs'[r].store[n] = envs[r].store[n]
                \/ /\ calls' = calls + 1
                   /\ evaluator' = r
                   /\ n \in DOMAIN envs'[r].store
                   /\ \E i \in DOMAIN trace' : /\ trace'[i].ev = "define"
                                            /\ trace'[i].env = r
                                            /\ trace'[i].name = n
       /\ \A r \in DOMAIN envs' \ DOMAIN envs :
            envs'[r].parent = 0 =>
                /\ DOMAIN envs'[r].store = {BuiltinNames[i] : i \in DOMAIN BuiltinNames}
                /\ \A n \in DOMAIN envs'[r].store :
                      /\ envs'[r].store[n].t = "Function"
                      /\ envs'[r].store[n].rc \notin DOMAIN callables
                      /\ callables'[envs'[r].store[n].rc] = [kind |-> "Builtin", name |-> n]
       /\ (calls' = calls + 1 /\ Len(program') = 1 /\ program'[1].k = "Identifier") =>
            result' = Get(envs, evaluator', program'[1].name)]_vars

\* two Evaluators: (let x 1) was run on the first, then x on the second,
\* which failed with UndefinedVariable("x") although the first still holds
\* x = 1
C14_Witness ==
    /\ calls = 2
    /\ evaluator # 1
    /\ envs[evaluator].parent = 0
    /\ program = <<x>>
    /\ result = Err(UndefinedVariable("x"))
    /\ "x" \notin DOMAIN envs[evaluator].store
    /\ "x" \in DOMAIN envs[1].store
    /\ envs[1].store["x"] = Number(1)

\* ------------------------------------------------------------- subtraction
Minus == Id("-")

\* (-)  (- 5)  (- 10 3 2)  (- 1 "a")  (- "a")  (let x (- 4 6))  (- x 1 x)
SubForms ==
    {Call(Minus, <<>>), Call(Minus, <<Num(5)>>), Call(Minus, <<Num(10), Num(3), Num(2)>>),
     Call(Minus, <<Num(1), Str("a")>>), Call(Minus, <<Str("a")>>),
     Let(x, Call(Minus, <<Num(4), Num(6)>>)), Call(Minus, <<x, Num(1), x>>)}

NextSub == \E prog \in Programs(SubForms, MaxNodes - nodes) :
              EvalProgram(prog, NoOracle)

SpecSub == Init /\ [][NextSub]_vars

\* C15: every invocation of the builtin - with no argument returns
\* WrongNumArgs; with one argument or more of which one is not a Number it
\* returns TypeError; with one Number a it returns -a; with two Numbers or
\* more it returns the first minus the sum of the others.
C15_SubtractsSumOfRest ==
    \A i \in Natives :
        trace[i].name = "-" =>
            LET args == trace[i].args
                res == trace[i].res
            IN IF Len(args) = 0
               THEN res.tag = "Err" /\ res.err.e = "WrongNumArgs"
               ELSE IF \E k \in DOMAIN args : args[k].t # "Number"
               THEN res.tag = "Err" /\ res.err.e = "TypeError"
               ELSE IF Len(args) = 1
               THEN res = Ok(F64(0 - args[1].n, args[1].den))
               ELSE /\ res.tag = "Ok"
                    /\ res.val.t = "Number"
                    /\ f64_add(res.val, SumFrom(args, 2)) = args[1]

\* (let x (- 4 6)) bound x to -2, then (- 10 3 2) returned 5 in one call and
\* (- x 1 x) returned -2 - (1 + -2) = -1 in the last
C15_Witness ==
    /\ "x" \in DOMAIN envs[1].store
    /\ envs[1].store["x"] = Number(0 - 2)
    /\ \E i \in Natives : /\ trace[i].name = "-"
                         /\ trace[i].args = <<Number(10), Number(3), Number(2)>>
                         /\ trace[i].res = Ok(Number(5))
    /\ \E i \in Natives : /\ trace[i].name = "-"
                         /\ trace[i].args = <<Number(0 - 2), Number(1), Number(0 - 2)>>
                         /\ trace[i].res = Ok(Number(0 - 1))

\* ------------------------------------------------------ order of evaluation
\* (let g (lambda (a b) b))  (g (let x 1) x)  (g z (let y 2))
\* (print (let x 2) x)  (print x z (let y 2))  (z (let y 2))
OrderForms ==
    {Let(g, Lambda(<<a, b>>, <<b>>)),
     Call(g, <<Let(x, Num(1)), x>>),
     Call(g, <<z, Let(y, Num(2))>>),
     Call(print, <<Let(x, Num(2)), x>>),
     Call(print, <<x, z, Let(y, Num(2))>>),
     Call(z, <<Let(y, Num(2))>>)}

NextOrder == \E prog \in Programs(OrderForms, MaxNodes - nodes) :
                EvalProgram(prog, NoOracle)

SpecOrder == Init /\ [][NextOrder]_vars

\* the starts of the callee of the call form entered at i: the Lambda
\* invocation or the native call it made itself
CalleeStarts(i) ==
    {j \in (i + 1)..(ExitOf(i) - 1) :
        /\ trace[j].ev \in {"call", "native"}
        /\ \A c \in ChildrenOf(i) : ~(c < j /\ j < ExitOf(c))}

\* C16: in every call form the first evaluation is the head, in the caller's
\* environment; the evaluations that follow, up to the start of the callee,
\* are the arguments, the n-th of them the n-th argument expression, each in
\* the caller's environment; an evaluation that fails is the last one of the
\* form, the form returns its error and the callee never starts; and when the
\* callee starts, the head and every argument have been evaluated and the
\* callee receives their values in order.
C16_HeadThenArgsLeftToRight ==
    \A i \in CallForms :
        LET el == trace[i].expr.elements
            m == Len(el) - 1
            kids == Ascending(ChildrenOf(i))
            res == ChildResults(i)
            before == {n \in DOMAIN kids : \A j \in CalleeStarts(i) : kids[n] < j}
        IN /\ Len(kids) >= 1
           /\ 1 \in before
           /\ \A n \in before :
                 /\ n <= m + 1
                 /\ trace[kids[n]].expr = el[n]
                 /\ trace[kids[n]].env = trace[i].env
                 /\ res[n].tag # "Ok" =>
                       /\ n = Len(kids)
                       /\ CalleeStarts(i) = {}
                       /\ trace[ExitOf(i)].res = res[n]
                       /\ ExitOf(i) = ExitOf(kids[n]) + 1
           /\ \A j \in CalleeStarts(i) :
                 /\ CalleeStarts(i) = {j}
                 /\ before = 1..(m + 1)
                 /\ trace[j].args = [n \in 1..m |-> res[n + 1].val]
                 /\ \A n \in DOMAIN kids \ before : trace[kids[n]].env # trace[i].env

\* (let g (lambda (a b) b)) (g (let x 1) x) (g z (let y 2)): the second node
\* passed Nil and the x its first argument had just defined; the third failed
\* on its first argument z, and the (let y 2) after it was never evaluated
C16_Witness ==
    /\ program = <<Let(g, Lambda(<<a, b>>, <<b>>)), Call(g, <<Let(x, Num(1)), x>>),
                   Call(g, <<z, Let(y, Num(2))>>)>>
    /\ result = Err(UndefinedVariable("z"))
    /\ \E c \in LambdaCalls : trace[c].args = <<Nil, Number(1)>>
    /\ Cardinality(LambdaCalls) = 1
    /\ "y" \notin DOMAIN envs[1].store
    /\ \A i \in Evals : trace[i].expr # Let(y, Num(2))

\* ------------------------------------------------------- failed evaluations
\* (let x 1)  (x (let y 7))  y  x  z
FailForms ==
    {Let(x, Num(1)), Call(x, <<Let(y, Num(7))>>), y, x, z}

NextFail == \E prog \in Programs(FailForms, MaxNodes - nodes) :
               EvalProgram(prog, NoOracle)

SpecFail == Init /\ [][NextFail]_vars

\* C17: when an eval_program call returns an error, the global environment
\* holds, for every name a let of that call defined in it, the value of the
\* last such let, whether the let was a node before the failing one or a
\* sub-expression of the failing node; and when the call after a failed one
\* starts with an identifier that the failed call defined, it reads that
\* value.
C17_FailureKeepsBindings ==
    [][calls' = calls + 1 =>
        /\ result'.tag = "Err" =>
              \A i \in DOMAIN trace' :
                  (/\ trace'[i].ev = "define"
                   /\ trace'[i].env = evaluator'
                   /\ \A j \in (i + 1)..Len(trace') :
                         ~(/\ trace'[j].ev = "define"
                           /\ trace'[j].env = evaluator'
                           /\ trace'[j].name = trace'[i].name))
                  => /\ trace'[i].name \in DOMAIN envs'[evaluator'].store
                     /\ envs'[evaluator'].store[trace'[i].name] = trace'[i].val
        /\ (/\ result.tag = "Err"
            /\ evaluator' = evaluator
            /\ Len(program') >= 1
            /\ program'[1].k = "Identifier") =>
              \A i \in Defines :
                  (/\ trace[i].env = evaluator
                   /\ trace[i].name = program'[1].name
                   /\ \A j \in Defines : (j > i /\ trace[j].env = evaluator)
                                            => trace[j].name # trace[i].name)
                  => /\ trace'[1].ev = "eval"
                     /\ trace'[1].expr = program'[1]
                     /\ trace'[2].ev = "exit"
                     /\ trace'[2].res = Ok(trace[i].val)]_vars

\* the first call ran (let x 1) (x (let y 7)) and failed with NotCallable
\* after its argument had defined y; the second call, y, returned 7
C17_Witness ==
    /\ calls = 2
    /\ program = <<y>>
    /\ result = Ok(Number(7))
    /\ envs[1].store["x"] = Number(1)
    /\ envs[1].store["y"] = Number(7)
====
